---- MODULE Spec2Model ----
(***************************************************************************)
(* A model of src/src/TypeAttributes.ts: the type-attribute algebra        *)
(* (TypeAttributeKind, combineTypeAttributes) and the C++ renderer         *)
(* (CPlusPlusRenderer) together with the behaviour of the code it emits.   *)
(*                                                                         *)
(* Representation.                                                         *)
(*   - TypeAttributes (an Immutable Map keyed by kind, kinds equal by      *)
(*     name) is a function from a set of kind names to values.             *)
(*   - The set of strings a description is (OrderedSet<string>) is the     *)
(*     set of its elements.                                                *)
(*   - A Map<string, OrderedSet<string>> is a function from property       *)
(*     names to such sets.                                                 *)
(*   - `T | undefined` is <<>> for undefined and <<v>> for the value v.    *)
(*   - A call that may throw returns [threw |-> BOOLEAN, bag |-> ...].     *)
(***************************************************************************)
EXTENDS Integers, Naturals, Sequences, FiniteSets, TLC

VARIABLES
    pc,             \* "call": the operation is about to run; "return": it has
    op,             \* the operation of the attribute algebra that is called
    attributeArray, \* combineTypeAttributes: its argument
    attrs,          \* set/modify/setDefault: the bag `a` passed in
    kind,           \* set/modify/setDefault: the kind (`this`)
    fn,             \* modify / makeDefault: the callback passed in
    result,         \* what the operation returned, or that it threw
    calls,          \* how many times the callback was invoked
    unionType,      \* the UnionType u being rendered
    input,          \* the JSON value handed to the generated union from_json
    upc,            \* the next step of rendering / running the union's code
    fieldType,      \* cppType(u, false, true): how a field of type u is declared
    unionTypedef,   \* emitUnionTypedefs: the type the alias is bound to
    fromJsonBranches, \* emitUnionFunctions: the if / else if chain of from_json
    toJsonCases,    \* emitUnionFunctions: the case labels of to_json
    taken,          \* the branch of from_json whose predicate held, or 0
    which,          \* the alternative _x holds after from_json (0-based), or -1
    encoded,        \* what to_json did with _x
    classType,      \* the ClassType c being rendered
    object,         \* the JSON object handed to the generated class from_json
    cpc,            \* the next step of rendering / running the class's code
    readers,        \* emitClassFunctions: the statements of from_json
    writer,         \* emitClassFunctions: the statement of to_json
    reading,        \* from_json: the statement that runs next
    fields,         \* from_json: the fields of _x assigned so far
    failedAt,       \* from_json: the statement that threw, or 0
    decoded,        \* j.get<Class>(): <<the record>>, or <<>> when it threw
    encodedObject,  \* to_json: <<the JSON object>> written to _j
    namedClasses,   \* the classes of the type graph being rendered
    namedUnions,    \* its unions that need a name
    haveUnions,     \* whether the graph has any union
    topLevels,      \* the top-level bindings, <<name, type>>, in their order
    rpc,            \* emitSourceStructure: the part that is being emitted
    topLevelIndex,  \* forEachTopLevel: the top-level handled next
    out             \* what has been emitted so far, in order

attrVars == <<pc, op, attributeArray, attrs, kind, fn, result, calls>>

unionVars ==
    <<unionType, input, upc, fieldType, unionTypedef, fromJsonBranches,
      toJsonCases, taken, which, encoded>>

classVars ==
    <<classType, object, cpc, readers, writer, reading, fields, failedAt, decoded,
      encodedObject>>

renderVars ==
    <<namedClasses, namedUnions, haveUnions, topLevels, rpc, topLevelIndex, out>>

vars == <<attrVars, unionVars, classVars, renderVars>>

(***************************************************************************)
(* Bounds of the model.                                                    *)
(***************************************************************************)
MaxBags == 3    \* longest attributeArray handed to combineTypeAttributes

MaxMembers == 3 \* most members of a union (null included)

MaxProperties == 2 \* most properties of a class

MaxTopLevels == 2 \* most top-level bindings of a render

(***************************************************************************)
(* Small helpers.                                                          *)
(***************************************************************************)
Range(s) == {s[i] : i \in DOMAIN s}

SeqsUpTo(S, n) == UNION {[1..m -> S] : m \in 0..n}

Undefined == <<>>

Defined(v) == <<v>>

(***************************************************************************)
(* Support.setUnion: the union of two sets of strings.                     *)
(***************************************************************************)
\* setUnion keeping the elements of its first argument only.
setUnionKeepsFirst(a, b) == a

setUnion(a, b) == a \cup b

(***************************************************************************)
(* Immutable Map.mergeWith(merger, b) with merger = setUnion, the combine  *)
(* function of propertyDescriptions: a key of both maps gets the merged    *)
(* value, a key of one map keeps its value.                                *)
(***************************************************************************)
mergeWithSetUnion(a, b) ==
    [p \in (DOMAIN a) \cup (DOMAIN b) |->
        IF p \in DOMAIN a /\ p \in DOMAIN b THEN setUnion(a[p], b[p])
        ELSE IF p \in DOMAIN a THEN a[p]
        ELSE b[p]]

(***************************************************************************)
(* The kinds. descriptionTypeAttributeKind and                             *)
(* propertyDescriptionsTypeAttributeKind are the two the file creates; a   *)
(* third kind stands for any kind constructed with combine === undefined.  *)
(***************************************************************************)
descriptionTypeAttributeKind == "description"

propertyDescriptionsTypeAttributeKind == "propertyDescriptions"

uncombinableTypeAttributeKind == "uncombinable"

Kinds ==
    {descriptionTypeAttributeKind, propertyDescriptionsTypeAttributeKind,
     uncombinableTypeAttributeKind}

\* The kinds constructed with a combine function.
HasCombine(k) ==
    k \in {descriptionTypeAttributeKind, propertyDescriptionsTypeAttributeKind}

Thrown == [threw |-> TRUE, bag |-> <<>>]

Returned(b) == [threw |-> FALSE, bag |-> b]

\* Support.panic: throws, never returns.
panic == Thrown

\* combine, had the constructor defaulted a missing combine function to
\* "keep the first value" instead of a panic.
combineDefaultsToFirst(k, aa, ab) ==
    IF ~HasCombine(k) THEN [threw |-> FALSE, bag |-> aa]
    ELSE IF k = descriptionTypeAttributeKind
    THEN [threw |-> FALSE, bag |-> setUnion(aa, ab)]
    ELSE [threw |-> FALSE, bag |-> mergeWithSetUnion(aa, ab)]

(***************************************************************************)
(* TypeAttributeKind.combine, as the constructor sets it: the function     *)
(* given, or one that panics when none was given.                          *)
(***************************************************************************)
combine(k, aa, ab) ==
    IF ~HasCombine(k) THEN panic
    ELSE IF k = descriptionTypeAttributeKind THEN Returned(setUnion(aa, ab))
    ELSE Returned(mergeWithSetUnion(aa, ab))

emptyTypeAttributes == <<>>

makeAttributes(k, value) == [x \in {k} |-> value]

tryGetInAttributes(k, a) == IF k \in DOMAIN a THEN Defined(a[k]) ELSE Undefined

setInAttributes(k, a, value) ==
    [x \in (DOMAIN a) \cup {k} |-> IF x = k THEN value ELSE a[x]]

removeFromAttributes(k, a) == [x \in (DOMAIN a) \ {k} |-> a[x]]

(***************************************************************************)
(* The callbacks handed to modifyInAttributes, as records                  *)
(* [tag, value]: "remove" returns undefined, "keep" returns its argument,  *)
(* "const" returns value whatever its argument (a makeDefault is one).     *)
(* value is <<v>>, so that callbacks of different kinds compare.           *)
(***************************************************************************)
Apply(f, arg) ==
    CASE f.tag = "remove" -> Undefined
      [] f.tag = "keep" -> arg
      [] OTHER -> f.value

\* modifyInAttributes: the callback is invoked exactly once.
modifyInAttributes(k, a, modify) ==
    LET modified == Apply(modify, tryGetInAttributes(k, a))
    IN  [bag |-> IF modified = Undefined THEN removeFromAttributes(k, a)
                 ELSE setInAttributes(k, a, modified[1]),
         calls |-> 1]

\* setDefaultInAttributes without its early return: the default always
\* replaces the value.
setDefaultAlwaysModifies(k, a, makeDefault) ==
    modifyInAttributes(k, a, makeDefault)

setDefaultInAttributes(k, a, makeDefault) ==
    IF tryGetInAttributes(k, a) # Undefined THEN [bag |-> a, calls |-> 0]
    ELSE modifyInAttributes(k, a, makeDefault)

(***************************************************************************)
(* Immutable Map.mergeWith(merger, ...rest) with the merger of             *)
(* combineTypeAttributes: the maps of rest are merged into the receiver    *)
(* one after the other; a key the accumulated map holds gets               *)
(* kind.combine(old, new), any other key is set. An exception of the       *)
(* merger ends the call.                                                   *)
(***************************************************************************)
mergeOne(acc, m) ==
    IF \E k \in (DOMAIN acc) \cap (DOMAIN m) : combine(k, acc[k], m[k]).threw
    THEN Thrown
    ELSE Returned([k \in (DOMAIN acc) \cup (DOMAIN m) |->
                     IF k \in DOMAIN acc /\ k \in DOMAIN m
                     THEN combine(k, acc[k], m[k]).bag
                     ELSE IF k \in DOMAIN acc THEN acc[k]
                     ELSE m[k]])

RECURSIVE mergeWith(_, _)
mergeWith(first, rest) ==
    IF rest = <<>> THEN Returned(first)
    ELSE LET r == mergeOne(first, Head(rest))
         IN  IF r.threw THEN r ELSE mergeWith(r.bag, Tail(rest))

\* combineTypeAttributes handing mergeWith the first bag of the rest only
\* (rest[0] where the code spreads ...rest).
combineTypeAttributesFirstOfRest(arr) ==
    IF Len(arr) = 0 THEN [threw |-> FALSE, bag |-> <<>>]
    ELSE mergeWith(arr[1], SubSeq(arr, 2, IF Len(arr) >= 2 THEN 2 ELSE 1))

combineTypeAttributes(arr) ==
    IF Len(arr) = 0 THEN Returned(emptyTypeAttributes)
    ELSE mergeWith(arr[1], Tail(arr))

(***************************************************************************)
(* The inputs of the attribute algebra.                                    *)
(***************************************************************************)
Strings == {"a", "b"}

PropertyNames == {"p", "q"}

\* The non-empty sets over Strings.
DescriptionValues == (SUBSET Strings) \ {{}}

\* Maps with one property and one string each: merges of them have more.
PropertyDescriptionsValues ==
    {[p \in {n} |-> {s}] : n \in PropertyNames, s \in Strings}

UncombinableValues == {"u1", "u2"}

ValuesOf(k) ==
    CASE k = descriptionTypeAttributeKind -> DescriptionValues
      [] k = propertyDescriptionsTypeAttributeKind -> PropertyDescriptionsValues
      [] OTHER -> UncombinableValues

Optional(S) == {Undefined} \cup {Defined(v) : v \in S}

\* The bag holding, for each kind, the value given (if any).
BagOf(d, p, u) ==
    [k \in {x \in Kinds :
                \/ x = descriptionTypeAttributeKind /\ d # Undefined
                \/ x = propertyDescriptionsTypeAttributeKind /\ p # Undefined
                \/ x = uncombinableTypeAttributeKind /\ u # Undefined} |->
        CASE k = descriptionTypeAttributeKind -> d[1]
          [] k = propertyDescriptionsTypeAttributeKind -> p[1]
          [] OTHER -> u[1]]

\* Bags of the two kinds that have a combine function.
CombinableBags ==
    {BagOf(d, p, Undefined) :
        d \in Optional(DescriptionValues),
        p \in Optional(PropertyDescriptionsValues)}

\* Bags that may hold the kind without a combine function.
UncombinableBags ==
    {BagOf(d, Undefined, u) :
        d \in Optional(DescriptionValues), u \in Optional(UncombinableValues)}

Bags == CombinableBags \cup UncombinableBags

AttributeArrays ==
    SeqsUpTo(CombinableBags, MaxBags) \cup SeqsUpTo(UncombinableBags, MaxBags)

Callbacks(k) ==
    {[tag |-> "remove", value |-> <<>>], [tag |-> "keep", value |-> <<>>]}
        \cup {[tag |-> "const", value |-> Defined(v)] : v \in ValuesOf(k)}

MakeDefaults(k) == {[tag |-> "const", value |-> Defined(v)] : v \in ValuesOf(k)}

(***************************************************************************)
(* The attribute algebra as a state machine: the initial state holds one   *)
(* call (the operation and its arguments, drawn from the sets above) and   *)
(* the operation's action carries it out, recording what came back.        *)
(***************************************************************************)
NoCallback == [tag |-> "none", value |-> Undefined]

UnionIdle ==
    /\ unionType = <<>>
    /\ input = <<>>
    /\ upc = "idle"
    /\ fieldType = <<>>
    /\ unionTypedef = <<>>
    /\ fromJsonBranches = <<>>
    /\ toJsonCases = <<>>
    /\ taken = 0
    /\ which = -1
    /\ encoded = <<>>

ClassIdle ==
    /\ classType = <<>>
    /\ object = <<>>
    /\ cpc = "idle"
    /\ readers = <<>>
    /\ writer = <<>>
    /\ reading = 0
    /\ fields = <<>>
    /\ failedAt = 0
    /\ decoded = <<>>
    /\ encodedObject = <<>>

RenderIdle ==
    /\ namedClasses = {}
    /\ namedUnions = {}
    /\ haveUnions = FALSE
    /\ topLevels = <<>>
    /\ rpc = "idle"
    /\ topLevelIndex = 0
    /\ out = <<>>

InitAttributes ==
    /\ UnionIdle
    /\ ClassIdle
    /\ RenderIdle
    /\ pc = "call"
    /\ result = Returned(emptyTypeAttributes)
    /\ calls = 0
    /\ \/ /\ op = "combineTypeAttributes"
          /\ attributeArray \in AttributeArrays
          /\ attrs = emptyTypeAttributes
          /\ kind = descriptionTypeAttributeKind
          /\ fn = NoCallback
       \/ /\ op \in {"setInAttributes", "setDefaultInAttributes"}
          /\ attributeArray = <<>>
          /\ attrs \in Bags
          /\ kind \in Kinds
          /\ fn \in MakeDefaults(kind)
       \/ /\ op = "modifyInAttributes"
          /\ attributeArray = <<>>
          /\ attrs \in Bags
          /\ kind \in Kinds
          /\ fn \in Callbacks(kind)

CombineTypeAttributes ==
    /\ pc = "call"
    /\ op = "combineTypeAttributes"
    /\ result' = combineTypeAttributes(attributeArray)
    /\ pc' = "return"
    /\ UNCHANGED <<op, attributeArray, attrs, kind, fn, calls, unionVars, classVars, renderVars>>

SetInAttributes ==
    /\ pc = "call"
    /\ op = "setInAttributes"
    /\ result' = Returned(setInAttributes(kind, attrs, fn.value[1]))
    /\ pc' = "return"
    /\ UNCHANGED <<op, attributeArray, attrs, kind, fn, calls, unionVars, classVars, renderVars>>

ModifyInAttributes ==
    /\ pc = "call"
    /\ op = "modifyInAttributes"
    /\ LET r == modifyInAttributes(kind, attrs, fn)
       IN  /\ result' = Returned(r.bag)
           /\ calls' = r.calls
    /\ pc' = "return"
    /\ UNCHANGED <<op, attributeArray, attrs, kind, fn, unionVars, classVars, renderVars>>

SetDefaultInAttributes ==
    /\ pc = "call"
    /\ op = "setDefaultInAttributes"
    /\ LET r == setDefaultInAttributes(kind, attrs, fn)
       IN  /\ result' = Returned(r.bag)
           /\ calls' = r.calls
    /\ pc' = "return"
    /\ UNCHANGED <<op, attributeArray, attrs, kind, fn, unionVars, classVars, renderVars>>

NextAttributes ==
    \/ CombineTypeAttributes
    \/ SetInAttributes
    \/ ModifyInAttributes
    \/ SetDefaultInAttributes

SpecAttributes == InitAttributes /\ [][NextAttributes]_vars

(***************************************************************************)
(* Claims about the attribute algebra, checked under SpecAttributes.       *)
(***************************************************************************)
CombineReturned == pc = "return" /\ op = "combineTypeAttributes"

KeysOf(arr) == UNION {DOMAIN arr[i] : i \in DOMAIN arr}

\* The positions of arr whose bag holds kind k, in input order.
RECURSIVE Holders(_, _, _)
Holders(arr, k, i) ==
    IF i > Len(arr) THEN <<>>
    ELSE (IF k \in DOMAIN arr[i] THEN <<i>> ELSE <<>>) \o Holders(arr, k, i + 1)

\* ((v1 + v2) + v3) + ... for the values of kind k at positions hs, + being
\* the kind's combine function.
RECURSIVE FoldLeft(_, _, _, _)
FoldLeft(arr, k, acc, hs) ==
    IF hs = <<>> THEN Returned(acc)
    ELSE LET r == combine(k, acc, arr[Head(hs)][k])
         IN  IF r.threw THEN r ELSE FoldLeft(arr, k, r.bag, Tail(hs))

FoldOfKind(arr, k) ==
    LET hs == Holders(arr, k, 1)
    IN  FoldLeft(arr, k, arr[Head(hs)][k], Tail(hs))

\* C1: combineTypeAttributes returns the bag whose kinds are those of all
\* input bags; a kind held by one bag keeps that bag's value, a kind held by
\* several has the left fold of its combine function over the values in
\* input order (and the call throws exactly when such a fold does); the empty
\* array gives the empty bag and a one-element array gives its element.
C1_CombineIsLeftFoldOverUnion ==
    CombineReturned =>
        LET arr == attributeArray
        IN  /\ result.threw <=> \E k \in KeysOf(arr) : FoldOfKind(arr, k).threw
            /\ ~result.threw =>
                /\ DOMAIN result.bag = KeysOf(arr)
                /\ \A k \in KeysOf(arr) :
                    /\ result.bag[k] = FoldOfKind(arr, k).bag
                    /\ Len(Holders(arr, k, 1)) = 1 =>
                        result.bag[k] = arr[Holders(arr, k, 1)[1]][k]
            /\ Len(arr) = 0 => result = Returned(emptyTypeAttributes)
            /\ Len(arr) = 1 => result = Returned(arr[1])

\* Three bags, one kind held by exactly one of them and another held by
\* several with values that differ, have been combined.
C1_Witness ==
    /\ CombineReturned
    /\ ~result.threw
    /\ Len(attributeArray) = 3
    /\ \E k \in KeysOf(attributeArray) : Len(Holders(attributeArray, k, 1)) = 1
    /\ \E k \in KeysOf(attributeArray) :
        /\ Len(Holders(attributeArray, k, 1)) = 3
        /\ attributeArray[1][k] # attributeArray[2][k]
        /\ result.bag[k] # attributeArray[3][k]

Orderings(n) ==
    {f \in [1..n -> 1..n] : \A i, j \in 1..n : f[i] = f[j] => i = j}

combineAll(arr) == combineTypeAttributes(arr).bag

\* The bags obtained from <<x, y, z>> by merging in one call and in either
\* grouping of two calls.
Groupings(x, y, z) ==
    {combineAll(<<x, y, z>>),
     combineAll(<<combineAll(<<x, y>>), z>>),
     combineAll(<<x, combineAll(<<y, z>>)>>)}

ThreeCombinableBags ==
    /\ CombineReturned
    /\ Len(attributeArray) = 3
    /\ \A i \in 1..3 : attributeArray[i] \in CombinableBags

\* C2: for bags of description and propertyDescriptions, merging A, B, C
\* in any permutation and in any grouping yields the same bag: the merge is
\* commutative and associative.
C2_AnyOrderAnyGroupingSameBag ==
    ThreeCombinableBags =>
        \A f \in Orderings(3) :
            Groupings(attributeArray[f[1]], attributeArray[f[2]],
                      attributeArray[f[3]]) = {result.bag}

\* Three bags whose descriptions and property descriptions overlap and
\* differ have been merged.
C2_Witness ==
    /\ ThreeCombinableBags
    /\ \A i \in 1..3 :
        DOMAIN attributeArray[i] =
            {descriptionTypeAttributeKind, propertyDescriptionsTypeAttributeKind}
    /\ attributeArray[1] # attributeArray[2]
    /\ Cardinality(result.bag[descriptionTypeAttributeKind]) = 2
    /\ \E p \in DOMAIN result.bag[propertyDescriptionsTypeAttributeKind] :
        Cardinality(result.bag[propertyDescriptionsTypeAttributeKind][p]) = 2

HoldersOfUncombinable ==
    Len(Holders(attributeArray, uncombinableTypeAttributeKind, 1))

\* C3: combining bags of which two or more hold a kind that has no combine
\* function throws and returns no bag; when at most one bag holds it,
\* nothing is thrown and the value passes through.
C3_UncombinableCollisionIsFatal ==
    CombineReturned =>
        /\ HoldersOfUncombinable >= 2 => result = Thrown
        /\ HoldersOfUncombinable <= 1 => ~result.threw
        /\ HoldersOfUncombinable = 1 =>
            result.bag[uncombinableTypeAttributeKind] =
                attributeArray[Holders(attributeArray,
                    uncombinableTypeAttributeKind, 1)[1]][uncombinableTypeAttributeKind]

\* The first and the third of three bags hold the uncombinable kind, and
\* the call threw.
C3_Witness ==
    /\ CombineReturned
    /\ result.threw
    /\ Len(attributeArray) = 3
    /\ Holders(attributeArray, uncombinableTypeAttributeKind, 1) = <<1, 3>>

\* C4: setDefaultInAttributes returns the bag it was given, without calling
\* makeDefault, when the kind has a value; otherwise it calls makeDefault at
\* most once, installs the result under the kind and leaves every other
\* kind's entry as it was.
C4_SetDefaultOnlyWhenAbsent ==
    (pc = "return" /\ op = "setDefaultInAttributes") =>
        IF kind \in DOMAIN attrs
        THEN result.bag = attrs /\ calls = 0
        ELSE /\ calls <= 1
             /\ DOMAIN result.bag = (DOMAIN attrs) \cup {kind}
             /\ result.bag[kind] = fn.value[1]
             /\ \A k \in DOMAIN attrs : result.bag[k] = attrs[k]

\* A default was installed into a bag that held another kind only.
C4_Witness ==
    /\ pc = "return"
    /\ op = "setDefaultInAttributes"
    /\ kind \notin DOMAIN attrs
    /\ attrs # emptyTypeAttributes
    /\ calls = 1
    /\ kind \in DOMAIN result.bag

(***************************************************************************)
(* The C++ renderer.                                                       *)
(*                                                                         *)
(* A Type is a record with its kind: [kind |-> "bool"], [kind |-> "array", *)
(* items |-> t], [kind |-> "map", values |-> t], [kind |-> "class",        *)
(* name |-> n, properties |-> <<...>>] or [kind |-> "union", name |-> n,   *)
(* members |-> <<...>>]; the members of a union are an OrderedSet, here a  *)
(* sequence without repetitions. A Sourcelike is the sequence of the       *)
(* strings it is made of; a Name is the string the namer assigned.         *)
(***************************************************************************)
namespaceName == "quicktype"

PrimitiveType(k) == [kind |-> k]

nameForNamedType(t) == t.name

\* Source.maybeAnnotated: the annotation marks the span for the issue list;
\* the text emitted is that of the Sourcelike.
maybeAnnotated(withIssues, annotation, sl) == sl

\* Type.removeNullFromUnion: [hasNull, nonNulls], nonNulls in member order.
removeNullFromUnion(u) ==
    [hasNull |-> \E i \in DOMAIN u.members : u.members[i].kind = "null",
     nonNulls |-> SelectSeq(u.members, LAMBDA t : t.kind # "null")]

\* Type.nullableFromUnion: the only non-null member of a union that has
\* null and one other member, as <<t>>; <<>> (null) for any other union.
nullableFromUnion(u) ==
    LET r == removeNullFromUnion(u)
    IN  IF r.hasNull /\ Len(r.nonNulls) = 1 THEN <<r.nonNulls[1]>> ELSE <<>>

ourQualifier(inJsonNamespace) ==
    IF inJsonNamespace THEN <<namespaceName, "::">> ELSE <<>>

jsonQualifier(inJsonNamespace) ==
    IF inJsonNamespace THEN <<>> ELSE <<"nlohmann::">>

RECURSIVE cppType(_, _, _)
cppType(t, inJsonNamespace, withIssues) ==
    CASE t.kind = "any" ->
            maybeAnnotated(withIssues, "anyTypeIssueAnnotation",
                           jsonQualifier(inJsonNamespace) \o <<"json">>)
      [] t.kind = "null" ->
            maybeAnnotated(withIssues, "nullTypeIssueAnnotation",
                           jsonQualifier(inJsonNamespace) \o <<"json">>)
      [] t.kind = "bool" -> <<"bool">>
      [] t.kind = "integer" -> <<"int64_t">>
      [] t.kind = "double" -> <<"double">>
      [] t.kind = "string" -> <<"std::string">>
      [] t.kind = "array" ->
            <<"std::vector<">>
                \o cppType(t.items, inJsonNamespace, withIssues) \o <<">">>
      [] t.kind = "class" ->
            <<"struct ">> \o ourQualifier(inJsonNamespace)
                \o <<nameForNamedType(t)>>
      [] t.kind = "map" ->
            <<"std::map<std::string, ">>
                \o cppType(t.values, inJsonNamespace, withIssues) \o <<">">>
      [] t.kind = "union" ->
            LET nullable == nullableFromUnion(t)
            IN  IF nullable = <<>>
                THEN ourQualifier(inJsonNamespace) \o <<nameForNamedType(t)>>
                ELSE <<"boost::optional<">>
                        \o cppType(nullable[1], inJsonNamespace, withIssues)
                        \o <<">">>

\* The typeList of cppTypeInOptional before the separators are pushed:
\* one Sourcelike per member, in the order nonNulls.forEach visits them.
typeList(nonNulls, inJsonNamespace, withIssues) ==
    [i \in 1..Len(nonNulls) |-> cppType(nonNulls[i], inJsonNamespace, withIssues)]

\* The elements of typeList with ", " pushed before all but the first.
RECURSIVE getReturns(_, _)
RECURSIVE unionFromJson(_, _, _)
RECURSIVE commaSeparated(_)
commaSeparated(list) ==
    IF list = <<>> THEN <<>>
    ELSE IF Len(list) = 1 THEN list[1]
    ELSE list[1] \o <<", ">> \o commaSeparated(Tail(list))

cppTypeInOptional(nonNulls, inJsonNamespace, withIssues) ==
    IF Len(nonNulls) = 1
    THEN cppType(nonNulls[1], inJsonNamespace, withIssues)
    ELSE <<"boost::variant<">>
            \o commaSeparated(typeList(nonNulls, inJsonNamespace, withIssues))
            \o <<">">>

\* variantType that wraps in boost::optional whether or not null is a member.
variantTypeAlwaysOptional(u, inJsonNamespace) ==
    LET r == removeNullFromUnion(u)
    IN  IF Len(r.nonNulls) < 2 THEN [threw |-> TRUE, source |-> <<>>]
        ELSE [threw |-> FALSE,
              source |-> <<"boost::optional<">>
                    \o cppTypeInOptional(r.nonNulls, inJsonNamespace, TRUE)
                    \o <<">">>]

\* variantType: [threw, source]; it throws for fewer than two non-null members.
variantType(u, inJsonNamespace) ==
    LET r == removeNullFromUnion(u)
        variant == cppTypeInOptional(r.nonNulls, inJsonNamespace, TRUE)
    IN  IF Len(r.nonNulls) < 2 THEN [threw |-> TRUE, source |-> <<>>]
        ELSE IF ~r.hasNull THEN [threw |-> FALSE, source |-> variant]
        ELSE [threw |-> FALSE,
              source |-> <<"boost::optional<">> \o variant \o <<">">>]

\* emitUnionTypedefs: the line "typedef <variantType> <unionName>;".
emitUnionTypedefs(u, unionName) ==
    [name |-> unionName, type |-> variantType(u, FALSE).source]

functionForKind ==
    << <<"bool", "is_boolean">>,
       <<"integer", "is_number_integer">>,
       <<"double", "is_number">>,
       <<"string", "is_string">>,
       <<"class", "is_object">>,
       <<"map", "is_object">>,
       <<"array", "is_array">> >>

\* nonNulls.find(t => t.kind === kind): <<t>> for the first such member.
findKind(nonNulls, k) ==
    LET found == SelectSeq(nonNulls, LAMBDA t : t.kind = k)
    IN  IF found = <<>> THEN <<>> ELSE <<found[1]>>

\* The if / else if branches of the generated from_json, in the order
\* emitted: for each entry of functionForKind whose kind a member has,
\* [func, type]: "(else) if (_j.<func>()) _x = _j.get<type>();".
RECURSIVE fromJsonFrom(_, _)
fromJsonFrom(nonNulls, i) ==
    IF i > Len(functionForKind) THEN <<>>
    ELSE LET t == findKind(nonNulls, functionForKind[i][1])
         IN  (IF t = <<>> THEN <<>>
              ELSE <<[func |-> functionForKind[i][2],
                      type |-> cppType(t[1], TRUE, FALSE)]>>)
                \o fromJsonFrom(nonNulls, i + 1)

emitUnionFromJson(u) == fromJsonFrom(removeNullFromUnion(u).nonNulls, 1)

\* The cases of to_json in the order of functionForKind instead of the
\* member order.
toJsonInTableOrder(u) ==
    LET b == emitUnionFromJson(u)
    IN  [i \in 1..Len(b) |-> [label |-> i - 1, type |-> b[i].type]]

\* The cases of the generated to_json, in the order emitted:
\* [label, type]: "case <label>: _j = boost::get<type>(_x); break;".
emitUnionToJson(u) ==
    LET nonNulls == removeNullFromUnion(u).nonNulls
    IN  [i \in 1..Len(nonNulls) |->
            [label |-> i - 1, type |-> cppType(nonNulls[i], TRUE, FALSE)]]

\* The alternatives of the variant the functions are declared for:
\* cppTypeInOptional(nonNulls, true, false).
VariantAlternatives(u) == typeList(removeNullFromUnion(u).nonNulls, TRUE, FALSE)

\* The named unions of the graph a class is rendered in: the unions whose
\* from_json / to_json the generated module holds.
EitherUnion ==
    [kind |-> "union", name |-> "Either",
     members |-> <<PrimitiveType("integer"), PrimitiveType("string")>>]

MaybeUnion ==
    [kind |-> "union", name |-> "Maybe",
     members |-> <<PrimitiveType("integer"), PrimitiveType("null"),
                   PrimitiveType("string")>>]

GraphUnions == {EitherUnion, MaybeUnion}

CoordinateClass ==
    [kind |-> "class", name |-> "Coordinate",
     properties |-> << <<"x", PrimitiveType("integer")>> >>]

GraphClassTypes ==
    {[kind |-> "class", name |-> n, properties |-> <<>>] : n \in {"Alpha", "Beta"}}

\* The classes a type of the graph can refer to, each under its own name.
GraphClasses == {CoordinateClass} \cup GraphClassTypes

(***************************************************************************)
(* The generated code at run time. A JSON value is [tag, elems]: tag is    *)
(* its nlohmann value type and elems the tag of the values an array or     *)
(* object holds ("none" for an empty one and for any other value).         *)
(***************************************************************************)
Json(tag, elems) == [tag |-> tag, elems |-> elems]

\* nlohmann::json's type predicates.
Holds(func, j) ==
    CASE func = "is_boolean" -> j.tag = "boolean"
      [] func = "is_number_integer" -> j.tag = "integer"
      [] func = "is_number" -> j.tag \in {"integer", "float"}
      [] func = "is_string" -> j.tag = "string"
      [] func = "is_object" -> j.tag = "object"
      [] func = "is_array" -> j.tag = "array"
      [] func = "is_null" -> j.tag = "null"
      [] OTHER -> FALSE

\* The first branch of the chain whose predicate holds of j; 0 when the
\* final "else throw" is reached.
firstBranch(branches, j) ==
    IF \E i \in DOMAIN branches : Holds(branches[i].func, j)
    THEN CHOOSE i \in DOMAIN branches :
            /\ Holds(branches[i].func, j)
            /\ \A k \in 1..(i - 1) : ~Holds(branches[k].func, j)
    ELSE 0

\* The alternative of the variant (0-based) that holds a value of the C++
\* type given, as boost::variant::which reports it; -1 if there is none.
alternativeOf(alternatives, type) ==
    IF \E i \in DOMAIN alternatives : alternatives[i] = type
    THEN (CHOOSE i \in DOMAIN alternatives : alternatives[i] = type) - 1
    ELSE -1

\* The element type T of std::vector<T> or std::map<std::string, T>.
Unwrap(type) == SubSeq(type, 2, Len(type) - 1)

\* The kind of the type cppType wrote a C++ type for; "none" for a type
\* that functionForKind has no entry for.
kindOfCppType(type) ==
    CASE type = <<"bool">> -> "bool"
      [] type = <<"int64_t">> -> "integer"
      [] type = <<"double">> -> "double"
      [] type = <<"std::string">> -> "string"
      [] Head(type) = "struct " -> "class"
      [] Head(type) = "std::map<std::string, " -> "map"
      [] Head(type) = "std::vector<" -> "array"
      [] OTHER -> "none"

\* The pieces of a type list between its ", " separators, the separators
\* inside a nested template left alone.
RECURSIVE alternativesFrom(_, _, _)
alternativesFrom(src, piece, depth) ==
    IF src = <<>> THEN <<piece>>
    ELSE IF Head(src) = ", " /\ depth = 0
    THEN <<piece>> \o alternativesFrom(Tail(src), <<>>, 0)
    ELSE alternativesFrom(
            Tail(src), Append(piece, Head(src)),
            IF Head(src) \in {"std::vector<", "std::map<std::string, ",
                              "boost::optional<", "boost::variant<"}
            THEN depth + 1
            ELSE IF Head(src) = ">" THEN depth - 1 ELSE depth)

\* The branches of the from_json that emitAllUnionFunctions emits for the
\* variant type given (one function per variant type): for each entry of
\* functionForKind, the first alternative of that kind.
RECURSIVE variantBranchesFrom(_, _)
variantBranchesFrom(alternatives, i) ==
    IF i > Len(functionForKind) THEN <<>>
    ELSE LET found == SelectSeq(alternatives,
                        LAMBDA a : kindOfCppType(a) = functionForKind[i][1])
         IN  (IF found = <<>> THEN <<>>
              ELSE <<[func |-> functionForKind[i][2], type |-> found[1]]>>)
                \o variantBranchesFrom(alternatives, i + 1)

variantFromJson(type) ==
    variantBranchesFrom(alternativesFrom(Unwrap(type), <<>>, 0), 1)

\* The class of the graph a "struct <qualifier><name>" names, as <<c>>;
\* <<>> when the graph has no class of that name.
classOfCppType(type) ==
    LET named == {c \in GraphClasses : nameForNamedType(c) = type[Len(type)]}
    IN  IF named = {} THEN <<>> ELSE <<CHOOSE c \in named : TRUE>>

\* Whether _j.find(property) finds the property: j is an object that holds
\* values ([object, none] is the object without properties, and any other
\* object holds a value of its tag elems under the key asked for).
HasKeys(j) == j.tag = "object" /\ j.elems # "none"

\* Whether nlohmann's j.get<type>() returns (TRUE) or throws: json takes
\* any value, bool a boolean, int64_t and double a number (type_error 302
\* for anything else, a boolean included), a string a string; a vector
\* takes an array and a map an object whose values the element type takes
\* (an empty one always);
\* a struct takes what the from_json generated for its class reads without
\* a throw, statement by statement as emitClassFunctions emits them (a
\* class without properties takes every value); boost::optional<T> takes
\* null and what T takes (adl_serializer, from emitOptionalHelpers); a
\* variant takes what the branch of its generated from_json takes, and a
\* named union what the type of its alias takes.
getReturns(j, type) ==
    CASE type = <<"json">> -> TRUE
      [] type = <<"bool">> -> j.tag = "boolean"
      [] type \in {<<"int64_t">>, <<"double">>} -> j.tag \in {"integer", "float"}
      [] type = <<"std::string">> -> j.tag = "string"
      [] Head(type) = "std::vector<" ->
            /\ j.tag = "array"
            /\ j.elems # "none" => getReturns(Json(j.elems, "none"), Unwrap(type))
      [] Head(type) = "std::map<std::string, " ->
            /\ j.tag = "object"
            /\ j.elems # "none" => getReturns(Json(j.elems, "none"), Unwrap(type))
      [] Head(type) = "struct " ->
            /\ classOfCppType(type) # <<>>
            /\ \A p \in Range(classOfCppType(type)[1].properties) :
                    LET t == p[2]
                        v == Json(j.elems, "none")
                    IN  IF t.kind = "union" /\ removeNullFromUnion(t).hasNull
                        THEN HasKeys(j) /\ v.tag # "null" =>
                                getReturns(v, cppTypeInOptional(
                                    removeNullFromUnion(t).nonNulls, TRUE, FALSE))
                        ELSE IF t.kind \in {"null", "any"} THEN TRUE
                        ELSE HasKeys(j) /\ getReturns(v, cppType(t, TRUE, FALSE))
      [] Head(type) = "boost::optional<" ->
            j.tag = "null" \/ getReturns(j, Unwrap(type))
      [] Head(type) = "boost::variant<" ->
            LET branches == variantFromJson(type)
                b == firstBranch(branches, j)
            IN  b # 0 /\ getReturns(j, branches[b].type)
      [] Head(type) = namespaceName ->
            \E u \in GraphUnions :
                /\ ourQualifier(TRUE) \o <<nameForNamedType(u)>> = type
                /\ getReturns(j, variantType(u, TRUE).source)
      [] OTHER -> FALSE

\* The JSON image of the C++ value j.get<type>() returns: a number read as
\* int64_t is an integer, one read as double a float, also inside a
\* vector, a map, a struct, an optional or the alternative of a variant.
RECURSIVE getValue(_, _)
getValue(j, type) ==
    CASE type = <<"int64_t">> -> Json("integer", "none")
      [] type = <<"double">> -> Json("float", "none")
      [] Head(type) \in {"std::vector<", "std::map<std::string, "} ->
            IF j.elems = "none" THEN j
            ELSE Json(j.tag, getValue(Json(j.elems, "none"), Unwrap(type)).tag)
      [] Head(type) = "struct " ->
            LET c == classOfCppType(type)
            IN  IF c = <<>> THEN j
                ELSE IF c[1].properties = <<>> THEN Json("object", "none")
                ELSE LET t == c[1].properties[1][2]
                         v == IF HasKeys(j) THEN Json(j.elems, "none")
                              ELSE Json("null", "none")
                     IN  Json("object",
                              IF t.kind = "union" /\ removeNullFromUnion(t).hasNull
                              THEN getValue(v, <<"boost::optional<">>
                                        \o cppTypeInOptional(
                                              removeNullFromUnion(t).nonNulls,
                                              TRUE, FALSE)
                                        \o <<">">>).tag
                              ELSE IF t.kind \in {"null", "any"} THEN v.tag
                              ELSE getValue(v, cppType(t, TRUE, FALSE)).tag)
      [] Head(type) = "boost::optional<" ->
            IF j.tag = "null" THEN j ELSE getValue(j, Unwrap(type))
      [] Head(type) = "boost::variant<" ->
            LET branches == variantFromJson(type)
                b == firstBranch(branches, j)
            IN  IF b = 0 THEN j ELSE getValue(j, branches[b].type)
      [] Head(type) = namespaceName ->
            IF \E u \in GraphUnions :
                    ourQualifier(TRUE) \o <<nameForNamedType(u)>> = type
            THEN LET u == CHOOSE u \in GraphUnions :
                            ourQualifier(TRUE) \o <<nameForNamedType(u)>> = type
                 IN  getValue(j, variantType(u, TRUE).source)
            ELSE j
      [] OTHER -> j

\* The generated from_json of a union on j: the branch taken (0 for the
\* final "else throw") and the alternative _x holds afterwards, -1 when
\* from_json or the get of the branch throws.
unionFromJson(branches, alternatives, j) ==
    LET b == firstBranch(branches, j)
    IN  [taken |-> b,
         which |-> IF b = 0 \/ ~getReturns(j, branches[b].type) THEN -1
                   ELSE alternativeOf(alternatives, branches[b].type)]

\* The generated to_json of a union on a variant holding alternative w:
\* the case taken and whether boost::get<type> finds that type held.
unionToJson(cases, alternatives, w) ==
    IF \E i \in DOMAIN cases : cases[i].label = w
    THEN LET c == CHOOSE i \in DOMAIN cases : cases[i].label = w
         IN  [case |-> cases[c].label,
              type |-> cases[c].type,
              threw |-> alternatives[w + 1] # cases[c].type]
    ELSE [case |-> -1, type |-> <<>>, threw |-> TRUE]

(***************************************************************************)
(* The unions and the JSON values of the model. The members of a union    *)
(* are a set of types in an order: no type twice, two arrays of different  *)
(* items being two types; a union has at least two members.                *)
(***************************************************************************)
MemberTypes ==
    {PrimitiveType("null"), PrimitiveType("bool"), PrimitiveType("integer"),
     PrimitiveType("double"), PrimitiveType("string"), CoordinateClass,
     [kind |-> "map", values |-> PrimitiveType("string")],
     [kind |-> "array", items |-> PrimitiveType("bool")],
     [kind |-> "array", items |-> PrimitiveType("string")]}

MemberSequences ==
    {m \in UNION {[1..n -> MemberTypes] : n \in 2..MaxMembers} :
        \A i, k \in DOMAIN m : m[i] = m[k] => i = k}

Unions == {[kind |-> "union", name |-> "Either", members |-> m] :
                m \in MemberSequences}

JsonValues ==
    {Json("null", "none"), Json("boolean", "none"), Json("integer", "none"),
     Json("float", "none"), Json("string", "none"),
     Json("object", "none"), Json("object", "integer"), Json("object", "string"),
     Json("array", "none"), Json("array", "boolean"), Json("array", "string")}

\* ConvenienceRenderer.unionNeedsName: the unions that get a name, an alias
\* and conversion functions are those cppType does not map to an optional.
unionNeedsName(u) == nullableFromUnion(u) = <<>>

(***************************************************************************)
(* Rendering one union and running the code generated for it.              *)
(***************************************************************************)
AttributesIdle ==
    /\ pc = "idle"
    /\ op = "none"
    /\ attributeArray = <<>>
    /\ attrs = emptyTypeAttributes
    /\ kind = descriptionTypeAttributeKind
    /\ fn = NoCallback
    /\ result = Returned(emptyTypeAttributes)
    /\ calls = 0

InitUnion ==
    /\ AttributesIdle
    /\ ClassIdle
    /\ RenderIdle
    /\ unionType \in Unions
    /\ input \in JsonValues
    /\ upc = "cppType"
    /\ fieldType = <<>>
    /\ unionTypedef = <<>>
    /\ fromJsonBranches = <<>>
    /\ toJsonCases = <<>>
    /\ taken = 0
    /\ which = -1
    /\ encoded = <<>>

\* emitClass: a property of type u is declared with cppType(u, false, true).
CppType ==
    /\ upc = "cppType"
    /\ fieldType' = cppType(unionType, FALSE, TRUE)
    /\ upc' = IF unionNeedsName(unionType) THEN "emitUnionTypedefs" ELSE "done"
    /\ UNCHANGED <<unionType, input, unionTypedef, fromJsonBranches,
                   toJsonCases, taken, which, encoded, attrVars, classVars, renderVars>>

EmitUnionTypedefs ==
    /\ upc = "emitUnionTypedefs"
    /\ ~variantType(unionType, FALSE).threw
    /\ unionTypedef' = <<emitUnionTypedefs(unionType, nameForNamedType(unionType))>>
    /\ upc' = "emitUnionFunctions"
    /\ UNCHANGED <<unionType, input, fieldType, fromJsonBranches,
                   toJsonCases, taken, which, encoded, attrVars, classVars, renderVars>>

EmitUnionFunctions ==
    /\ upc = "emitUnionFunctions"
    /\ fromJsonBranches' = emitUnionFromJson(unionType)
    /\ toJsonCases' = emitUnionToJson(unionType)
    /\ upc' = "from_json"
    /\ UNCHANGED <<unionType, input, fieldType, unionTypedef, taken, which,
                   encoded, attrVars, classVars, renderVars>>

UnionFromJson ==
    /\ upc = "from_json"
    /\ LET r == unionFromJson(fromJsonBranches,
                               VariantAlternatives(unionType), input)
       IN  /\ taken' = r.taken
           /\ which' = r.which
           /\ upc' = IF r.which = -1 THEN "threw" ELSE "to_json"
    /\ UNCHANGED <<unionType, input, fieldType, unionTypedef,
                   fromJsonBranches, toJsonCases, encoded, attrVars, classVars, renderVars>>

UnionToJson ==
    /\ upc = "to_json"
    /\ encoded' = <<unionToJson(toJsonCases, VariantAlternatives(unionType),
                                which)>>
    /\ upc' = "done"
    /\ UNCHANGED <<unionType, input, fieldType, unionTypedef,
                   fromJsonBranches, toJsonCases, taken, which,
                   attrVars, classVars, renderVars>>

NextUnion ==
    \/ CppType
    \/ EmitUnionTypedefs
    \/ EmitUnionFunctions
    \/ UnionFromJson
    \/ UnionToJson

SpecUnion == InitUnion /\ [][NextUnion]_vars

(***************************************************************************)
(* Claims about the mapping and the conversion functions of a union,       *)
(* checked under SpecUnion.                                                *)
(***************************************************************************)
NonNulls == removeNullFromUnion(unionType).nonNulls

HasNull == \E i \in DOMAIN unionType.members : unionType.members[i].kind = "null"

\* The declarations that concern the union have been emitted.
Declared == upc \in {"emitUnionFunctions", "from_json", "to_json", "threw", "done"}

\* What the union denotes in the declarations: the type its alias is bound
\* to when a field of the union is declared by the alias name, and the
\* field's type otherwise.
Denoted ==
    IF unionTypedef # <<>> /\ fieldType = <<unionTypedef[1].name>>
    THEN unionTypedef[1].type
    ELSE fieldType

IsWrapped(src, open) ==
    Len(src) >= 2 /\ src[1] = open /\ src[Len(src)] = ">"

Unwrapped(src) == SubSeq(src, 2, Len(src) - 1)

\* The pieces of a Sourcelike between its ", " separators.
RECURSIVE SplitAtCommas(_, _)
SplitAtCommas(src, piece) ==
    IF src = <<>> THEN <<piece>>
    ELSE IF Head(src) = ", " THEN <<piece>> \o SplitAtCommas(Tail(src), <<>>)
    ELSE SplitAtCommas(Tail(src), Append(piece, Head(src)))

\* The alternatives listed by a boost::variant<...>, optional or not.
AlternativesOf(src) ==
    LET v == IF IsWrapped(src, "boost::optional<") THEN Unwrapped(src) ELSE src
    IN  IF IsWrapped(v, "boost::variant<")
        THEN SplitAtCommas(Unwrapped(v), <<>>)
        ELSE <<>>

Mapped(t) == cppType(t, FALSE, TRUE)

\* C5: a union with null and one other member denotes
\* optional(mapped(that member)); a union with two or more non-null members
\* denotes a boost::variant listing mapped(member) once per non-null member
\* in member order, wrapped in boost::optional iff null is a member.
C5_UnionTypeMapping ==
    Declared \/ upc = "done" =>
        /\ (Len(NonNulls) = 1 /\ HasNull) =>
            Denoted = <<"boost::optional<">> \o Mapped(NonNulls[1]) \o <<">">>
        /\ Len(NonNulls) >= 2 =>
            /\ IsWrapped(Denoted, "boost::optional<") <=> HasNull
            /\ AlternativesOf(Denoted) = [i \in 1..Len(NonNulls) |-> Mapped(NonNulls[i])]

\* A union of null and two other members, null not last, has been declared.
C5_Witness ==
    /\ Declared
    /\ HasNull
    /\ Len(NonNulls) = 2
    /\ unionType.members[3].kind # "null"
    /\ IsWrapped(Denoted, "boost::optional<")
    /\ Len(AlternativesOf(Denoted)) = 2

\* The predicates in their priority order, and what each accepts.
PredicatePriority ==
    <<"bool", "integer", "double", "string", "class", "map", "array">>

Accepts(k, j) ==
    CASE k = "bool" -> j.tag = "boolean"
      [] k = "integer" -> j.tag = "integer"
      [] k = "double" -> j.tag \in {"integer", "float"}
      [] k = "string" -> j.tag = "string"
      [] k \in {"class", "map"} -> j.tag = "object"
      [] k = "array" -> j.tag = "array"

KindsOf(members) == {members[i].kind : i \in DOMAIN members} \ {"null"}

\* The positions in PredicatePriority of the members' kinds that accept j.
Matching(members, j) ==
    {i \in DOMAIN PredicatePriority :
        /\ PredicatePriority[i] \in KindsOf(members)
        /\ Accepts(PredicatePriority[i], j)}

Least(S) == CHOOSE i \in S : \A k \in S : i <= k

\* The kinds of the members, in the priority order of their predicates.
PresentInPriority(members) ==
    SelectSeq(PredicatePriority, LAMBDA k : k \in KindsOf(members))

\* The kind whose predicate is the first to match j, as <<k>>, or <<>>.
FirstMatch(members, j) ==
    IF Matching(members, j) = {} THEN <<>>
    ELSE <<PredicatePriority[Least(Matching(members, j))]>>

Reordered(members, f) == [i \in DOMAIN members |-> members[f[i]]]

\* Whether a JSON value converts to a value of type t: any and null take
\* every value, bool a boolean, integer and double a number, string a
\* string, an array or a map an array or an object of values its items
\* convert from, a class an object holding each property that has to be
\* there with a value that converts, a union with null and one other member
\* null or what that member takes, any other union what the member of its
\* first matching predicate takes (null too when null is a member and the
\* value is read through boost::optional).
RECURSIVE CoercesTo(_, _)
CoercesTo(j, t) ==
    LET elem == Json(j.elems, "none")
    IN  CASE t.kind \in {"any", "null"} -> TRUE
          [] t.kind = "bool" -> j.tag = "boolean"
          [] t.kind \in {"integer", "double"} -> j.tag \in {"integer", "float"}
          [] t.kind = "string" -> j.tag = "string"
          [] t.kind = "array" ->
                j.tag = "array" /\ (j.elems # "none" => CoercesTo(elem, t.items))
          [] t.kind = "map" ->
                j.tag = "object" /\ (j.elems # "none" => CoercesTo(elem, t.values))
          [] t.kind = "class" ->
                \A i \in DOMAIN t.properties :
                    LET pt == t.properties[i][2]
                        present == j.tag = "object" /\ j.elems # "none"
                    IN  IF pt.kind \in {"any", "null"} THEN TRUE
                        ELSE IF pt.kind = "union"
                                /\ \E m \in DOMAIN pt.members :
                                        pt.members[m].kind = "null"
                        THEN present => CoercesTo(elem, pt)
                        ELSE present /\ CoercesTo(elem, pt)
          [] t.kind = "union" ->
                LET nonNull == SelectSeq(t.members, LAMBDA m : m.kind # "null")
                    first == FirstMatch(t.members, j)
                IN  \/ j.tag = "null" /\ Len(nonNull) < Len(t.members)
                    \/ Len(nonNull) = 1 /\ CoercesTo(j, nonNull[1])
                    \/ /\ Len(nonNull) >= 2
                       /\ first # <<>>
                       /\ CoercesTo(j, SelectSeq(nonNull,
                                        LAMBDA m : m.kind = first[1])[1])

Decoded == upc \in {"to_json", "threw", "done"} /\ unionNeedsName(unionType)

\* C7: the generated from_json tests the predicates of the kinds the union
\* has, in the fixed priority order; for every JSON value the alternative
\* decoded is the member of the first predicate that matches, whatever the
\* order in which the members were declared, and from_json throws when none
\* matches.
C7_FirstMatchingPredicateDecides ==
    Decoded =>
        LET first == FirstMatch(unionType.members, input)
        IN  /\ Len(fromJsonBranches) = Cardinality(KindsOf(unionType.members))
            /\ \A i \in DOMAIN fromJsonBranches :
                LET k == PresentInPriority(unionType.members)[i]
                IN  /\ \E t \in Range(NonNulls) :
                            /\ t.kind = k
                            /\ fromJsonBranches[i].type = cppType(t, TRUE, FALSE)
                    /\ \A j \in JsonValues :
                            Holds(fromJsonBranches[i].func, j) <=> Accepts(k, j)
            /\ first = <<>> <=> taken = 0
            /\ taken = 0 => upc = "threw" /\ which = -1
            /\ taken # 0 =>
                \E t \in Range(NonNulls) :
                    /\ t.kind = first[1]
                    /\ fromJsonBranches[taken].type = cppType(t, TRUE, FALSE)
                    /\ which = -1 <=> ~CoercesTo(input, t)
                    /\ which # -1 => NonNulls[which + 1] = t
            /\ \A f \in Orderings(Len(unionType.members)) :
                LET m == Reordered(unionType.members, f)
                    v == [unionType EXCEPT !.members = m]
                    r == unionFromJson(emitUnionFromJson(v),
                                       VariantAlternatives(v), input)
                IN  /\ r.taken = 0 <=> taken = 0
                    /\ r.which = -1 <=> which = -1
                    /\ r.which # -1 =>
                        removeNullFromUnion(v).nonNulls[r.which + 1]
                            = NonNulls[which + 1]

Unqualified(src) ==
    SelectSeq(src, LAMBDA x : x \notin {namespaceName, "::", "nlohmann::"})

FunctionsEmitted == upc \in {"from_json", "to_json", "threw", "done"} /\ unionNeedsName(unionType)

\* C8: the generated to_json has one case per non-null member, labelled
\* 0..n-1, and case i extracts the type of the i-th alternative of the
\* variant the union's alias is bound to, so that every alternative the
\* variant can hold has its case (and boost::get finds the type held).
C8_ToJsonCasesFollowAlias ==
    FunctionsEmitted =>
        LET alias == AlternativesOf(unionTypedef[1].type)
        IN  /\ Len(toJsonCases) = Len(NonNulls)
            /\ Len(alias) = Len(NonNulls)
            /\ \A i \in DOMAIN toJsonCases :
                /\ toJsonCases[i].label = i - 1
                /\ Unqualified(toJsonCases[i].type) = Unqualified(alias[i])
                /\ toJsonCases[i].type = cppType(NonNulls[i], TRUE, FALSE)
            /\ encoded # <<>> =>
                /\ ~encoded[1].threw
                /\ encoded[1].case = which

\* A variant of three alternatives, declared in another order than that of
\* the predicate table, holds its last alternative and has been encoded.
C8_Witness ==
    /\ FunctionsEmitted
    /\ upc = "done"
    /\ Len(toJsonCases) = 3
    /\ unionType.members[1].kind = "string"
    /\ unionType.members[3].kind = "bool"
    /\ which = 2
    /\ encoded # <<>>
    /\ encoded[1].case = 2

(***************************************************************************)
(* emitClassFunctions and the class conversion functions it generates.     *)
(* A class is [kind |-> "class", name, properties], properties the         *)
(* sequence of <<jsonKey, type>> in declared order; a JSON object is a     *)
(* function from the keys it has to JSON values; a field of _x is          *)
(* [some, json]: some is FALSE for an empty boost::optional, json is the   *)
(* JSON image of the value held.                                           *)
(***************************************************************************)
\* Support.utf16StringEscape: the keys of the model are ASCII letters, which
\* the escape leaves as they are.
utf16StringEscape(key) == key

\* The Name the namer assigns to a property (forEachProperty hands it over).
nameForProperty(key) == key

\* One statement of the generated from_json per property, in declared
\* order: [name, reader, type, key], reader being the helper called.
emitClassFromJson(c) ==
    [i \in 1..Len(c.properties) |->
        LET json == c.properties[i][1]
            t == c.properties[i][2]
            name == nameForProperty(json)
        IN  IF t.kind = "union" /\ removeNullFromUnion(t).hasNull
            THEN [name |-> name, reader |-> "get_optional",
                  type |-> cppTypeInOptional(removeNullFromUnion(t).nonNulls,
                                             TRUE, FALSE),
                  key |-> utf16StringEscape(json)]
            ELSE IF t.kind = "null" \/ t.kind = "any"
            THEN [name |-> name, reader |-> "get_untyped", type |-> <<"json">>,
                  key |-> utf16StringEscape(json)]
            ELSE [name |-> name, reader |-> "at_get",
                  type |-> cppType(t, TRUE, FALSE),
                  key |-> utf16StringEscape(json)]]

\* The statement of the generated to_json: "_j = json::object();" for a
\* class without properties, "_j = json{{key, _x.name}, ...};" otherwise.
emitClassToJson(c) ==
    [emptyObject |-> c.properties = <<>>,
     args |-> [i \in 1..Len(c.properties) |->
                [key |-> utf16StringEscape(c.properties[i][1]),
                 name |-> nameForProperty(c.properties[i][1])]]]

JsonNull == Json("null", "none")

Field(some, j) == [some |-> some, json |-> j]

None == Field(FALSE, JsonNull)

Threw == [threw |-> TRUE, field |-> None]

Read(f) == [threw |-> FALSE, field |-> f]

\* The helper get_untyped(j, property) of the generated module.
get_untyped(j, property) ==
    IF property \in DOMAIN j THEN Read(Field(TRUE, j[property]))
    ELSE Read(Field(TRUE, JsonNull))

\* adl_serializer<boost::optional<T>>::from_json.
optionalFromJson(j, type) ==
    IF j.tag = "null" THEN Read(None)
    ELSE IF getReturns(j, type) THEN Read(Field(TRUE, getValue(j, type)))
    ELSE Threw

\* get_optional with a missing key throwing like json::at.
get_optionalStrict(j, property, type) ==
    IF property \in DOMAIN j THEN optionalFromJson(j[property], type)
    ELSE [threw |-> TRUE, field |-> Field(FALSE, Json("null", "none"))]

\* The helper get_optional<T>(j, property) of the generated module.
get_optional(j, property, type) ==
    IF property \in DOMAIN j THEN optionalFromJson(j[property], type)
    ELSE Read(None)

\* at_get without the failure of json::at on a missing key: the field is
\* left as it was constructed.
at_getLenient(j, property, type) ==
    IF property \notin DOMAIN j
    THEN [threw |-> FALSE, field |-> Field(TRUE, Json("null", "none"))]
    ELSE IF getReturns(j[property], type)
    THEN [threw |-> FALSE, field |-> Field(TRUE, getValue(j[property], type))]
    ELSE [threw |-> TRUE, field |-> Field(FALSE, Json("null", "none"))]

\* _j.at(property).get<T>(): json::at throws for a missing key.
at_get(j, property, type) ==
    IF property \notin DOMAIN j THEN Threw
    ELSE IF getReturns(j[property], type)
    THEN Read(Field(TRUE, getValue(j[property], type)))
    ELSE Threw

\* One statement of the generated from_json.
readProperty(r, j) ==
    CASE r.reader = "get_optional" -> get_optional(j, r.key, r.type)
      [] r.reader = "get_untyped" -> get_untyped(j, r.key)
      [] OTHER -> at_get(j, r.key, r.type)

\* adl_serializer<boost::optional<T>>::to_json, and to_json of a value.
fieldToJson(f) == IF ~f.some THEN JsonNull ELSE f.json

\* The generated to_json of a class.
classToJson(w, xs) ==
    IF w.emptyObject THEN <<>>
    ELSE [k \in {w.args[i].key : i \in DOMAIN w.args} |->
            fieldToJson(xs[(CHOOSE i \in DOMAIN w.args : w.args[i].key = k)])]

\* The generated from_json of a class, from statement i on: [threw, fields].
RECURSIVE classFromJson(_, _, _, _)
classFromJson(rs, j, i, xs) ==
    IF i > Len(rs) THEN [threw |-> FALSE, fields |-> xs]
    ELSE LET r == readProperty(rs[i], j)
         IN  IF r.threw THEN [threw |-> TRUE, fields |-> xs]
             ELSE classFromJson(rs, j, i + 1, Append(xs, r.field))

(***************************************************************************)
(* The classes and the JSON objects of the model.                          *)
(***************************************************************************)
PropertyKeys == <<"a", "b", "c", "d">>

NullableString ==
    [kind |-> "union", name |-> "Nullable",
     members |-> <<PrimitiveType("string"), PrimitiveType("null")>>]

\* A type of every kind a property can have: read by get_untyped (any,
\* null), by get_optional (the unions with null) and by at().get<T>().
PropertyTypes ==
    {PrimitiveType("any"), PrimitiveType("null"), PrimitiveType("bool"),
     PrimitiveType("integer"), PrimitiveType("double"), PrimitiveType("string"),
     [kind |-> "array", items |-> PrimitiveType("bool")],
     [kind |-> "map", values |-> PrimitiveType("string")],
     CoordinateClass, NullableString, EitherUnion, MaybeUnion}

\* The types of the properties that stand beside the one under study: one
\* for each of the three statements emitClassFunctions emits.
NeighbourTypes == {PrimitiveType("any"), PrimitiveType("integer"), NullableString}

\* The classes: up to MaxProperties properties, one of them of any type of
\* PropertyTypes and the others of the neighbour types.
Classes ==
    {[kind |-> "class", name |-> "Record",
      properties |-> [i \in 1..n |-> <<PropertyKeys[i], ts[i]>>]] :
        n \in 0..MaxProperties,
        ts \in {x \in [1..MaxProperties -> PropertyTypes] :
                    \A i, k \in 1..MaxProperties :
                        (x[i] \notin NeighbourTypes /\ x[k] \notin NeighbourTypes)
                            => i = k}}

PropertyValues ==
    {JsonNull, Json("boolean", "none"), Json("integer", "none"),
     Json("float", "none"), Json("string", "none"),
     Json("array", "none"), Json("array", "boolean"), Json("array", "string"),
     Json("object", "none"), Json("object", "integer"), Json("object", "string")}

\* The values under the keys beside the one under study.
NeighbourValues == {JsonNull, Json("integer", "none"), Json("string", "none")}

KeysOfClass(c) == {c.properties[i][1] : i \in DOMAIN c.properties}

\* The objects handed to the from_json of c: any subset of its keys, one of
\* them with any value of PropertyValues and the others with neighbour
\* values.
ObjectsFor(c) ==
    UNION {{o \in [ks -> PropertyValues] :
                \A a, b \in ks :
                    (o[a] \notin NeighbourValues /\ o[b] \notin NeighbourValues)
                        => a = b} :
            ks \in SUBSET KeysOfClass(c)}

(***************************************************************************)
(* Rendering one class and running the code generated for it: the          *)
(* statements of from_json run one after the other; j.get<Record>() hands  *)
(* out the record only when from_json has returned.                        *)
(***************************************************************************)
InitClass ==
    /\ AttributesIdle
    /\ UnionIdle
    /\ RenderIdle
    /\ classType \in Classes
    /\ object \in ObjectsFor(classType)
    /\ cpc = "emitClassFunctions"
    /\ readers = <<>>
    /\ writer = <<>>
    /\ reading = 0
    /\ fields = <<>>
    /\ failedAt = 0
    /\ decoded = <<>>
    /\ encodedObject = <<>>

EmitClassFunctions ==
    /\ cpc = "emitClassFunctions"
    /\ readers' = emitClassFromJson(classType)
    /\ writer' = <<emitClassToJson(classType)>>
    /\ reading' = 1
    /\ cpc' = "from_json"
    /\ UNCHANGED <<classType, object, fields, failedAt, decoded, encodedObject,
                   attrVars, unionVars, renderVars>>

\* One statement of from_json: the field is assigned, or the statement
\* throws and from_json is left.
ClassFromJsonStep ==
    /\ cpc = "from_json"
    /\ reading <= Len(readers)
    /\ LET r == readProperty(readers[reading], object)
       IN  IF r.threw
           THEN /\ failedAt' = reading
                /\ cpc' = "threw"
                /\ UNCHANGED <<fields, reading>>
           ELSE /\ fields' = Append(fields, r.field)
                /\ reading' = reading + 1
                /\ UNCHANGED <<failedAt, cpc>>
    /\ UNCHANGED <<classType, object, readers, writer, decoded, encodedObject,
                   attrVars, unionVars, renderVars>>

\* from_json returns and j.get<Record>() returns the record.
ClassFromJsonReturn ==
    /\ cpc = "from_json"
    /\ reading > Len(readers)
    /\ decoded' = <<fields>>
    /\ cpc' = "to_json"
    /\ UNCHANGED <<classType, object, readers, writer, reading, fields,
                   failedAt, encodedObject, attrVars, unionVars, renderVars>>

ClassToJson ==
    /\ cpc = "to_json"
    /\ encodedObject' = <<classToJson(writer[1], decoded[1])>>
    /\ cpc' = "done"
    /\ UNCHANGED <<classType, object, readers, writer, reading, fields,
                   failedAt, decoded, attrVars, unionVars, renderVars>>

NextClass ==
    \/ EmitClassFunctions
    \/ ClassFromJsonStep
    \/ ClassFromJsonReturn
    \/ ClassToJson

SpecClass == InitClass /\ [][NextClass]_vars

(***************************************************************************)
(* Claims about the conversion functions of a class, checked under         *)
(* SpecClass.                                                              *)
(***************************************************************************)
PropertyKey(i) == classType.properties[i][1]

PropertyType(i) == classType.properties[i][2]

IsNullableUnion(t) ==
    t.kind = "union" /\ \E i \in DOMAIN t.members : t.members[i].kind = "null"

Permissive(t) == t.kind \in {"any", "null"} \/ IsNullableUnion(t)

\* The statements of from_json that have run, the one that threw included.
Processed == {i \in DOMAIN readers : i < reading \/ i = failedAt}

Running == cpc \in {"from_json", "threw", "to_json", "done"}

\* C6: from_json reads the properties in declared order; the read of a
\* property of type any or null or of a union with null is permissive (a
\* missing key leaves the field empty and the next statement runs); any
\* other read is strict: a missing key, or a value that does not convert,
\* throws, and no record is handed out.
C6_PermissiveAndStrictReads ==
    Running =>
        /\ Len(readers) = Len(classType.properties)
        /\ \A i \in DOMAIN readers : readers[i].key = PropertyKey(i)
        /\ \A i \in Processed :
            LET missing == PropertyKey(i) \notin DOMAIN object
            IN  IF Permissive(PropertyType(i))
                THEN /\ missing =>
                            /\ failedAt # i
                            /\ reading > i
                            /\ fields[i].json = JsonNull
                            /\ IsNullableUnion(PropertyType(i)) => ~fields[i].some
                     /\ ~missing =>
                            (~CoercesTo(object[PropertyKey(i)], PropertyType(i))
                                <=> failedAt = i)
                ELSE (missing \/ ~CoercesTo(object[PropertyKey(i)], PropertyType(i)))
                        <=> failedAt = i
        /\ failedAt # 0 =>
            /\ cpc = "threw"
            /\ decoded = <<>>
            /\ encodedObject = <<>>

\* The first property, a union with null, had no key and was left empty;
\* the second, an integer, had a string and from_json threw.
C6_Witness ==
    /\ cpc = "threw"
    /\ Len(classType.properties) = 2
    /\ IsNullableUnion(PropertyType(1))
    /\ PropertyType(2).kind = "integer"
    /\ DOMAIN object = {PropertyKey(2)}
    /\ object[PropertyKey(2)].tag = "string"
    /\ fields = <<None>>
    /\ failedAt = 2
    /\ decoded = <<>>

Without(j, k) == [p \in (DOMAIN j) \ {k} |-> j[p]]

WithNull(j, k) == [p \in (DOMAIN j) \cup {k} |-> IF p = k THEN JsonNull ELSE j[p]]

\* C9: for a property typed as a union with null, the object without the
\* key and the same object with the key set to null decode alike (both
\* throw, or both give the same fields, the property's being the empty
\* optional) and the two records encode to the same object, null under the
\* key; what the generated code did with the object at hand agrees.
C9_MissingKeyAndNullAlike ==
    Running =>
        \A i \in DOMAIN readers :
            IsNullableUnion(PropertyType(i)) =>
                LET k == PropertyKey(i)
                    a == classFromJson(readers, Without(object, k), 1, <<>>)
                    b == classFromJson(readers, WithNull(object, k), 1, <<>>)
                    absent == k \notin DOMAIN object \/ object[k] = JsonNull
                IN  /\ a = b
                    /\ ~a.threw =>
                        /\ a.fields[i] = None
                        /\ classToJson(writer[1], a.fields)
                                = classToJson(writer[1], b.fields)
                        /\ classToJson(writer[1], a.fields)[k] = JsonNull
                    /\ (absent /\ i \in Processed) => failedAt # i
                    /\ (absent /\ decoded # <<>>) =>
                        /\ decoded[1] = a.fields
                        /\ decoded[1][i] = None
                    /\ (absent /\ encodedObject # <<>>) =>
                        encodedObject[1][k] = JsonNull

\* A record whose second property is the union of string and null was
\* decoded from an object without that key and encoded again.
C9_Witness ==
    /\ cpc = "done"
    /\ Len(classType.properties) = 2
    /\ PropertyType(2) = NullableString
    /\ DOMAIN object = {PropertyKey(1)}
    /\ decoded # <<>>
    /\ decoded[1][2] = None
    /\ encodedObject[1][PropertyKey(2)] = JsonNull

(***************************************************************************)
(* emitSourceStructure: the order in which a render emits its parts.       *)
(* What is emitted is recorded item by item: [item, name], item being      *)
(* what the line or block is and name the type or binding it is for.       *)
(***************************************************************************)
Item(what, name) == [item |-> what, name |-> name]

\* Type.isNamedType: classes and unions are the named types.
isNamedType(t) == t.kind \in {"class", "union"}

\* namedTypeToNameForTopLevel: <<type>> for a named type, <<>> (null)
\* otherwise.
namedTypeToNameForTopLevel(type) ==
    IF isNamedType(type) THEN <<type>> ELSE <<>>

\* emitTopLevelTypedef: the typedef line, or nothing for a named type.
emitTopLevelTypedef(t, name) ==
    IF namedTypeToNameForTopLevel(t) = <<>>
    THEN <<Item("topLevelTypedef", name)>>
    ELSE <<>>

\* The head of the file: the comment with one usage line per top-level,
\* the includes, "namespace quicktype {" and "using nlohmann::json;".
emitHeader(tops, unions, namedUnionsExist) ==
    <<Item("comment", "")>>
        \o [i \in 1..Len(tops) |-> Item("usage", tops[i][1])]
        \o (IF unions THEN <<Item("include", "boost/optional.hpp")>> ELSE <<>>)
        \o (IF namedUnionsExist THEN <<Item("include", "boost/variant.hpp")>>
            ELSE <<>>)
        \o <<Item("include", "json.hpp"), Item("using", "nlohmann::json")>>

\* get_untyped and, with unions, get_optional; then, in namespace nlohmann
\* and with unions, the adl_serializer of boost::optional.
emitHelpers(unions) ==
    <<Item("helper", "get_untyped")>>
        \o (IF unions
            THEN <<Item("helper", "get_optional"),
                   Item("helper", "adl_serializer")>>
            ELSE <<>>)

\* The parts of emitSourceStructure with top-level aliases ahead of the
\* named types.
partAfterAliasesFirst(part) ==
    CASE part = "header" -> "topLevels"
      [] part = "topLevels" -> "namedTypes"
      [] part = "namedTypes" -> "helpers"
      [] part = "helpers" -> "classFunctions"
      [] part = "classFunctions" -> "unionFunctions"
      [] OTHER -> "done"

\* The statements of emitSourceStructure in their order: the part that
\* follows each part.
partAfter(part) ==
    CASE part = "header" -> "namedTypes"
      [] part = "namedTypes" -> "topLevels"
      [] part = "topLevels" -> "helpers"
      [] part = "helpers" -> "classFunctions"
      [] part = "classFunctions" -> "unionFunctions"
      [] OTHER -> "done"

Emitted(what) == {out[i].name : i \in {k \in DOMAIN out : out[k].item = what}}

(***************************************************************************)
(* The type graphs of the model: up to two classes, up to two named        *)
(* unions, and top-level bindings whose root is one of them or an array.   *)
(***************************************************************************)
StringArray == [kind |-> "array", items |-> PrimitiveType("string")]

TopLevelNames == <<"TopLevel1", "TopLevel2", "TopLevel3", "TopLevel4">>

TopLevelsOver(roots) ==
    {[i \in 1..n |-> <<TopLevelNames[i], r[i]>>] :
        n \in 1..MaxTopLevels, r \in [1..MaxTopLevels -> roots]}

InitRender ==
    /\ AttributesIdle
    /\ UnionIdle
    /\ ClassIdle
    /\ namedClasses \in SUBSET GraphClassTypes
    /\ namedUnions \in SUBSET GraphUnions
    /\ haveUnions \in {b \in BOOLEAN : namedUnions # {} => b}
    /\ topLevels \in TopLevelsOver(namedClasses \cup namedUnions \cup {StringArray})
    /\ rpc = "header"
    /\ topLevelIndex = 1
    /\ out = <<>>

EmitHeader ==
    /\ rpc = "header"
    /\ out' = out \o emitHeader(topLevels, haveUnions, namedUnions # {})
    /\ rpc' = partAfter(rpc)
    /\ UNCHANGED <<namedClasses, namedUnions, haveUnions, topLevels,
                   topLevelIndex, attrVars, unionVars, classVars>>

\* forEachNamedType: the named types are visited in an order the driver
\* chooses; emitClass declares a class, emitUnionTypedefs a union.
EmitNamedType ==
    /\ rpc = "namedTypes"
    /\ \E t \in namedClasses \cup namedUnions :
        /\ nameForNamedType(t) \notin Emitted("struct") \cup Emitted("unionTypedef")
        /\ out' = Append(out,
                    IF t.kind = "class"
                    THEN Item("struct", nameForNamedType(t))
                    ELSE Item("unionTypedef",
                              emitUnionTypedefs(t, nameForNamedType(t)).name))
    /\ UNCHANGED <<namedClasses, namedUnions, haveUnions, topLevels, rpc,
                   topLevelIndex, attrVars, unionVars, classVars>>

\* forEachTopLevel("leading", emitTopLevelTypedef), one binding at a time.
EmitTopLevelTypedef ==
    /\ rpc = "topLevels"
    /\ topLevelIndex <= Len(topLevels)
    /\ out' = out \o emitTopLevelTypedef(topLevels[topLevelIndex][2],
                                         topLevels[topLevelIndex][1])
    /\ topLevelIndex' = topLevelIndex + 1
    /\ UNCHANGED <<namedClasses, namedUnions, haveUnions, topLevels, rpc,
                   attrVars, unionVars, classVars>>

EmitHelpers ==
    /\ rpc = "helpers"
    /\ out' = out \o emitHelpers(haveUnions)
    /\ rpc' = partAfter(rpc)
    /\ UNCHANGED <<namedClasses, namedUnions, haveUnions, topLevels,
                   topLevelIndex, attrVars, unionVars, classVars>>

\* forEachClass(emitClassFunctions), one class at a time.
EmitFunctionsOfClass ==
    /\ rpc = "classFunctions"
    /\ \E c \in namedClasses :
        /\ nameForNamedType(c) \notin Emitted("classFunctions")
        /\ out' = Append(out, Item("classFunctions", nameForNamedType(c)))
    /\ UNCHANGED <<namedClasses, namedUnions, haveUnions, topLevels, rpc,
                   topLevelIndex, attrVars, unionVars, classVars>>

\* The key emitAllUnionFunctions tells unions apart by: the text of
\* cppTypeInOptional(nonNulls, true, false).
uniqueValue(u) == cppTypeInOptional(removeNullFromUnion(u).nonNulls, TRUE, FALSE)

\* emitAllUnionFunctions: emitUnionFunctions once for each variant type.
EmitFunctionsOfUnion ==
    /\ rpc = "unionFunctions"
    /\ haveUnions
    /\ \E u \in namedUnions :
        /\ \A v \in namedUnions :
            uniqueValue(v) = uniqueValue(u) =>
                nameForNamedType(v) \notin Emitted("unionFunctions")
        /\ out' = Append(out, Item("unionFunctions", nameForNamedType(u)))
    /\ UNCHANGED <<namedClasses, namedUnions, haveUnions, topLevels, rpc,
                   topLevelIndex, attrVars, unionVars, classVars>>

\* A loop of emitSourceStructure has nothing left to visit.
LoopFinished ==
    CASE rpc = "namedTypes" ->
            \A t \in namedClasses \cup namedUnions :
                nameForNamedType(t) \in Emitted("struct") \cup Emitted("unionTypedef")
      [] rpc = "topLevels" -> topLevelIndex > Len(topLevels)
      [] rpc = "classFunctions" ->
            \A c \in namedClasses : nameForNamedType(c) \in Emitted("classFunctions")
      [] rpc = "unionFunctions" ->
            haveUnions =>
                \A u \in namedUnions :
                    \E v \in namedUnions :
                        /\ uniqueValue(v) = uniqueValue(u)
                        /\ nameForNamedType(v) \in Emitted("unionFunctions")
      [] OTHER -> FALSE

NextPart ==
    /\ LoopFinished
    /\ rpc' = partAfter(rpc)
    /\ UNCHANGED <<namedClasses, namedUnions, haveUnions, topLevels,
                   topLevelIndex, out, attrVars, unionVars, classVars>>

NextRender ==
    \/ EmitHeader
    \/ EmitNamedType
    \/ EmitTopLevelTypedef
    \/ EmitHelpers
    \/ EmitFunctionsOfClass
    \/ EmitFunctionsOfUnion
    \/ NextPart

SpecRender == InitRender /\ [][NextRender]_vars

(***************************************************************************)
(* Claims about the order of emission, checked under SpecRender.           *)
(***************************************************************************)
Declarations == {"struct", "unionTypedef"}

Aliases == {"topLevelTypedef"}

Serialization == {"helper", "classFunctions", "unionFunctions"}

UnnamedTopLevels ==
    {topLevels[i][1] : i \in {k \in DOMAIN topLevels :
                                topLevels[k][2].kind \notin {"class", "union"}}}

\* C10: at every point of a render, no top-level alias precedes a
\* declaration of a named type and no serialization code precedes a
\* top-level alias or a declaration; when the aliases start every named
\* class and union has been declared, when the serialization code starts
\* every alias has been emitted, and at the end every class and every named
\* union has its conversion functions.
C10_DeclarationsAliasesSerialization ==
    rpc # "idle" =>
        /\ \A i, k \in DOMAIN out :
            i < k =>
                /\ ~(out[i].item \in Aliases /\ out[k].item \in Declarations)
                /\ ~(out[i].item \in Serialization
                        /\ out[k].item \in Declarations \cup Aliases)
        /\ (\E i \in DOMAIN out : out[i].item \in Aliases \cup Serialization) =>
            Emitted("struct") \cup Emitted("unionTypedef") =
                {nameForNamedType(t) : t \in namedClasses \cup namedUnions}
        /\ (\E i \in DOMAIN out : out[i].item \in Serialization) =>
            Emitted("topLevelTypedef") = UnnamedTopLevels
        /\ rpc = "done" =>
            /\ Emitted("classFunctions") = {nameForNamedType(c) : c \in namedClasses}
            /\ \A u \in namedUnions :
                \E v \in namedUnions :
                    /\ uniqueValue(v) = uniqueValue(u)
                    /\ nameForNamedType(v) \in Emitted("unionFunctions")

\* A render of two classes, a named union and two top-levels, one of them
\* an alias, has emitted all of its parts.
C10_Witness ==
    /\ rpc = "done"
    /\ Cardinality(namedClasses) = 2
    /\ namedUnions # {}
    /\ Len(topLevels) = 2
    /\ Emitted("topLevelTypedef") # {}
    /\ Emitted("topLevelTypedef") # {topLevels[i][1] : i \in DOMAIN topLevels}
    /\ Emitted("unionFunctions") # {}

(***************************************************************************)
(* Claims about the reach of the branches of a union's from_json, checked  *)
(* under SpecUnion.                                                        *)
(***************************************************************************)
\* No two of the members are of the same kind.
DistinctKinds(members) ==
    \A i, k \in DOMAIN members : members[i].kind = members[k].kind => i = k

\* The JSON values for which the generated from_json takes the branch that
\* decodes member t.
SelectingValues(branches, t) ==
    {j \in JsonValues :
        LET b == firstBranch(branches, j)
        IN  b # 0 /\ branches[b].type = cppType(t, TRUE, FALSE)}

\* C11: for every union whose non-null members have pairwise distinct kinds
\* among bool, integer, double, string, class, map and array, each member
\* has a JSON value for which the generated from_json takes the branch of
\* that member; no branch is shadowed by an earlier one.
C11_EveryMemberSelectable ==
    (FunctionsEmitted /\ DistinctKinds(NonNulls)) =>
        \A i \in DOMAIN NonNulls :
            SelectingValues(fromJsonBranches, NonNulls[i]) # {}

====
